---- MODULE Spec2Model ----
(***************************************************************************)
(* QuestionCrafter backend (src/backend/main.py): the persona catalog, the *)
(* /select-personas handler (selection, validation, rationale repair) and  *)
(* the /improve-question handler (the eleven-stage conversation).          *)
(*                                                                         *)
(* Python dicts with optional keys are modelled as a total function plus   *)
(* the set of keys that are present (persona records), or as a total       *)
(* function with the marker NoEntry for an absent key (rationale maps).    *)
(***************************************************************************)
EXTENDS Naturals, Sequences, FiniteSets

\* ------------------------------------------------------------------ bounds
\* Number of persona names a loaded catalog may declare.
MaxNames == 3

\* ------------------------------------------------------------- name spaces
AllNames == <<"A", "B", "C", "D", "E">>

\* Names a personas.yaml may declare, in declaration order.
CatalogNames == {AllNames[i] : i \in 1..MaxNames}

\* A persona name the model may invent that no catalog declares.
Hallucinated == "Z"

\* Every name a generation call may mention.
NameUniverse == CatalogNames \cup {Hallucinated}

\* Rationale texts of the first and of the repair generation call.
FirstRationaleTexts == {"", "r1"}
RepairRationaleTexts == {"", "r2"}

\* Marker for "this key is not in the dict".
NoEntry == "<no entry>"

Sentinel == "Error: No rationale provided"

\* ------------------------------------------------------- persona records
PersonaFields ==
    {"name", "role", "background", "core_expertise", "cognitive_approach",
     "values_and_motivations", "communication_style", "notable_trait",
     "original_role"}

\* The values a dict holds for keys that are absent (never read).
BlankVal ==
    [name |-> "", role |-> "", background |-> "", core_expertise |-> <<>>,
     cognitive_approach |-> "", values_and_motivations |-> "",
     communication_style |-> "", notable_trait |-> "", original_role |-> ""]

\* The empty dict {}.
EmptyDict == [keys |-> {}, val |-> BlankVal]

\* dict.get(key, default)
DictGet(d, key, default) == IF key \in d.keys THEN d.val[key] ELSE default

\* d[key] = value
DictSet(d, key, value) ==
    [keys |-> d.keys \cup {key}, val |-> [d.val EXCEPT ![key] = value]]

\* The entry personas.yaml declares for the i-th name: a full entry, an entry
\* with a name attribute, a sparse entry, an entry with no attributes.
YamlEntry(i) ==
    CASE i % 4 = 1 ->
           [keys |-> PersonaFields \ {"name", "original_role"},
            val |-> [BlankVal EXCEPT !.role = "Philosopher",
                                     !.background = "Ethics",
                                     !.core_expertise = <<"logic", "ethics">>,
                                     !.cognitive_approach = "analytic",
                                     !.values_and_motivations = "truth",
                                     !.communication_style = "socratic",
                                     !.notable_trait = "curious"]]
      [] i % 4 = 2 ->
           [keys |-> {"name", "role", "background"},
            val |-> [BlankVal EXCEPT !.name = "Dr. B",
                                     !.role = "Physicist",
                                     !.background = "Quantum theory"]]
      [] i % 4 = 3 ->
           [keys |-> {"role"},
            val |-> [BlankVal EXCEPT !.role = "Historian"]]
      [] OTHER -> EmptyDict

\* personas_data after a load that declares the names of S:
\* order is the declaration order, defs[n] the dict stored under n.
CatalogOf(S) ==
    [order |-> SelectSeq(AllNames, LAMBDA n : n \in S),
     defs |-> [n \in NameUniverse |->
                 IF n \in S
                   THEN YamlEntry(CHOOSE i \in 1..Len(AllNames) : AllNames[i] = n)
                   ELSE EmptyDict]]

\* load_personas: the file's content, or {"personas": {}} when loading fails.
LoadedCatalogs == {CatalogOf({AllNames[i] : i \in 1..c}) : c \in 0..MaxNames}

Range(s) == {s[i] : i \in 1..Len(s)}

\* get_all_persona_names
get_all_persona_names(pd) == pd.order

\* The dict get_persona_definition works on: the catalog's own dict for a
\* declared name, a fresh placeholder otherwise.
LookupDict(pd, persona_name) ==
    IF persona_name \in Range(pd.order)
      THEN pd.defs[persona_name]
      ELSE [keys |-> {"name", "role", "background"},
            val |-> [BlankVal EXCEPT !.name = persona_name,
                                     !.role = "Unknown",
                                     !.background = "No background available"]]

\* The defaults without the one for notable_trait.
WithDefaultsNoTrait(d, persona_name) ==
    LET d1 == DictSet(d, "original_role", persona_name)
        d2 == DictSet(d1, "core_expertise", DictGet(d1, "core_expertise", <<>>))
        d3 == DictSet(d2, "cognitive_approach", DictGet(d2, "cognitive_approach", ""))
        d4 == DictSet(d3, "values_and_motivations", DictGet(d3, "values_and_motivations", ""))
        d5 == DictSet(d4, "communication_style", DictGet(d4, "communication_style", ""))
    IN  d5

\* Lines 72-77: original_role is set, missing attributes get their defaults.
WithDefaults(d, persona_name) ==
    LET d1 == DictSet(d, "original_role", persona_name)
        d2 == DictSet(d1, "core_expertise", DictGet(d1, "core_expertise", <<>>))
        d3 == DictSet(d2, "cognitive_approach", DictGet(d2, "cognitive_approach", ""))
        d4 == DictSet(d3, "values_and_motivations", DictGet(d3, "values_and_motivations", ""))
        d5 == DictSet(d4, "communication_style", DictGet(d4, "communication_style", ""))
        d6 == DictSet(d5, "notable_trait", DictGet(d5, "notable_trait", ""))
    IN  d6

\* get_persona_definition: the returned dict.
get_persona_definition(pd, persona_name) ==
    WithDefaults(LookupDict(pd, persona_name), persona_name)

\* get_persona_definition: personas_data afterwards (the dict of a declared
\* name is the catalog's own object, so the assignments land in the catalog).
personas_after_definition(pd, persona_name) ==
    IF persona_name \in Range(pd.order)
      THEN [pd EXCEPT !.defs[persona_name] = get_persona_definition(pd, persona_name)]
      ELSE pd

\* ---------------------------------------------------------- rationale maps
\* The dict with no keys.
EmptyMap == [n \in NameUniverse |-> NoEntry]

\* The dicts with keys K and values from Texts.
MapsOver(K, Texts) ==
    {m \in [NameUniverse -> Texts \cup {NoEntry}] :
        \A n \in NameUniverse : (m[n] # NoEntry) <=> (n \in K)}

\* key in d
HasEntry(m, n) == m[n] # NoEntry

\* d.update(other)
DictUpdate(m, other) ==
    [n \in NameUniverse |-> IF other[n] # NoEntry THEN other[n] ELSE m[n]]

\* ------------------------------------------------- generation call outcomes
\* What output_parser.parse makes of the first call's text: a JSONDecodeError
\* ("malformed"), another parser exception such as a missing field
\* ("badshape"), or the four parsed fields. The rationale field is a dict over
\* some of the selected names, or not a dict at all.
NoSelection ==
    [persona1 |-> "", persona2 |-> "", persona3 |-> "",
     rationale |-> [isdict |-> FALSE, map |-> EmptyMap]]

Selections ==
    {[persona1 |-> a, persona2 |-> b, persona3 |-> c, rationale |-> r] :
        a \in NameUniverse, b \in NameUniverse, c \in NameUniverse,
        r \in {[isdict |-> FALSE, map |-> EmptyMap]} \cup
              {[isdict |-> TRUE, map |-> m] :
                  m \in [NameUniverse -> FirstRationaleTexts \cup {NoEntry}]}}

FirstResponses ==
    {[kind |-> "malformed", selection |-> NoSelection],
     [kind |-> "badshape", selection |-> NoSelection]} \cup
    {[kind |-> "ok", selection |-> s] :
        s \in {t \in Selections :
                 \A n \in NameUniverse :
                    HasEntry(t.rationale.map, n) =>
                       n \in {t.persona1, t.persona2, t.persona3}}}

NoResponse == [kind |-> "none", selection |-> NoSelection]

\* What json.loads and rationales.update make of the repair call's text: a
\* JSONDecodeError ("malformed"), a JSON value update() rejects ("rejected",
\* e.g. a number), a JSON value update() accepts without adding a key
\* ("mapping" with no keys, e.g. {} or []), or a dict over some of the names.
RepairResponses(names) ==
    {[kind |-> "malformed", map |-> EmptyMap],
     [kind |-> "rejected", map |-> EmptyMap]} \cup
    {[kind |-> "mapping", map |-> m] :
        m \in UNION {MapsOver(K, RepairRationaleTexts) : K \in SUBSET names}}

\* ------------------------------------------------- validate_persona_selection
\* A validation that appends the selected name whether or not it is valid.
ValidatedOneKeepsInvalid(valid_personas, persona) == {persona}

\* One iteration of the loop: the names that may be appended for persona.
\* random.choice of an empty list raises IndexError: no outcome.
ValidatedOne(valid_personas, persona) ==
    IF persona \in Range(valid_personas)
      THEN {persona}
      ELSE Range(valid_personas)

\* The lists validate_persona_selection may return for the three names.
validate_persona_selection(pd, selected_personas) ==
    LET valid_personas == get_all_persona_names(pd)
    IN  {<<a, b, c>> : a \in ValidatedOne(valid_personas, selected_personas[1]),
                       b \in ValidatedOne(valid_personas, selected_personas[2]),
                       c \in ValidatedOne(valid_personas, selected_personas[3])}

\* The catalog after get_persona_definition has run for each name of names.
RECURSIVE personas_after_definitions(_, _)
personas_after_definitions(pd, names) ==
    IF names = <<>>
      THEN pd
      ELSE personas_after_definitions(
               personas_after_definition(pd, Head(names)), Tail(names))

\* Line 174: the list of returned dicts. A dict of a declared name is the
\* catalog's object, so every element shows the catalog's final content.
persona_definitions(pd, names) ==
    LET after == personas_after_definitions(pd, names)
    IN  [i \in 1..Len(names) |-> get_persona_definition(after, names[i])]

\* An isinstance test the wrong way round: a dict is discarded.
rationales_of_inverted(sel) ==
    IF ~sel.rationale.isdict THEN sel.rationale.map ELSE EmptyMap

\* Lines 177-180: the rationale field, or {} when it is not a dict.
rationales_of(sel) ==
    IF sel.rationale.isdict THEN sel.rationale.map ELSE EmptyMap

\* A comprehension without its filter: every validated name counts as missing.
missing_of_all(validated, rats) == validated

\* Line 182
missing_of(validated, rats) ==
    SelectSeq(validated, LAMBDA p : ~HasEntry(rats, p))

\* A repair that is attempted unconditionally.
needs_repair_always(missing) == TRUE

\* Line 184: if missing_rationales
needs_repair(missing) == missing # <<>>

\* A result whose rationale defaults to the empty text, not to the sentinel.
ResultPersonaNoSentinel(persona, rats) ==
    [name |-> DictGet(persona, "name", "Unknown"),
     role |-> DictGet(persona, "role", "Unknown"),
     background |-> DictGet(persona, "background", "No background available"),
     core_expertise |-> DictGet(persona, "core_expertise", <<>>),
     cognitive_approach |-> DictGet(persona, "cognitive_approach", ""),
     values_and_motivations |-> DictGet(persona, "values_and_motivations", ""),
     communication_style |-> DictGet(persona, "communication_style", ""),
     notable_trait |-> DictGet(persona, "notable_trait", ""),
     rationale |-> IF HasEntry(rats, persona.val["original_role"])
                     THEN rats[persona.val["original_role"]]
                     ELSE ""]

\* Lines 214-227: one element of result["personas"].
ResultPersona(persona, rats) ==
    [name |-> DictGet(persona, "name", "Unknown"),
     role |-> DictGet(persona, "role", "Unknown"),
     background |-> DictGet(persona, "background", "No background available"),
     core_expertise |-> DictGet(persona, "core_expertise", <<>>),
     cognitive_approach |-> DictGet(persona, "cognitive_approach", ""),
     values_and_motivations |-> DictGet(persona, "values_and_motivations", ""),
     communication_style |-> DictGet(persona, "communication_style", ""),
     notable_trait |-> DictGet(persona, "notable_trait", ""),
     rationale |-> IF HasEntry(rats, persona.val["original_role"])
                     THEN rats[persona.val["original_role"]]
                     ELSE Sentinel]

\* ------------------------------------------------------- /improve-question
\* Texts a generation call may produce.
Texts == {"t1", "t2"}

\* The values conversation.invoke may return: a str, a dict (with or without
\* the keys "response" and "output") or any other object; text is the value
\* of str(...) for it.
RawResponses ==
    {[kind |-> "str", text |-> t, response |-> NoEntry, output |-> NoEntry] :
        t \in Texts} \cup
    {[kind |-> "dict", text |-> t, response |-> r, output |-> o] :
        t \in Texts, r \in Texts \cup {NoEntry}, o \in Texts \cup {NoEntry}} \cup
    {[kind |-> "other", text |-> t, response |-> NoEntry, output |-> NoEntry] :
        t \in Texts}

\* An extraction that knows the "response" key only.
get_content_response_only(raw) ==
    IF raw.kind = "str" THEN raw.text
    ELSE IF raw.kind = "dict" /\ raw.response # NoEntry THEN raw.response
    ELSE raw.text

\* Lines 95-103
get_content(raw) ==
    IF raw.kind = "str" THEN raw.text
    ELSE IF raw.kind = "dict" /\ raw.response # NoEntry THEN raw.response
    ELSE IF raw.kind = "dict" /\ raw.output # NoEntry THEN raw.output
    ELSE raw.text

\* A memory that keeps only the latest turn.
save_context_window(history, prompt, text) ==
    <<[prompt |-> prompt, response |-> text]>>

\* ConversationBufferMemory: the turn is appended to the memory's history.
save_context(history, prompt, text) ==
    Append(history, [prompt |-> prompt, response |-> text])

\* The number of prompts of improve_question (prompt_1 .. prompt_11).
NumPrompts == 11

\* A result that returns the response to prompt 1 as the individual answers.
improve_result_initial_answers(outs) ==
    [improved_question |-> outs[7],
     final_answer |-> outs[6],
     summary |-> outs[8],
     rationale |-> outs[9],
     harmony_principle |-> outs[10],
     new_dimensions |-> outs[11],
     individual_answers |-> outs[1]]

\* Lines 441-449: the returned dict, from the locals first .. eleventh
\* (outs[k] is the content extracted from the response to prompt k).
improve_result(outs) ==
    [improved_question |-> outs[7],
     final_answer |-> outs[6],
     summary |-> outs[8],
     rationale |-> outs[9],
     harmony_principle |-> outs[10],
     new_dimensions |-> outs[11],
     individual_answers |-> outs[5]]

\* ----------------------------------------------------------------- state
VARIABLES
    personas_data,                  \* the global catalog
    pc,                             \* where the request in progress stands
    handler,                        \* "none", "select" or "improve"
    calls,                          \* generation calls issued by this request
    response,                       \* parse outcome of the first call's text
    selection,                      \* the parsed selection
    validated_personas,
    selected_persona_definitions,
    rationales,
    missing_rationales,
    additional_rationales,          \* the mapping parsed from the repair call
    repair_calls,                   \* the persona lists given to repair calls
    status,                         \* 0 while running, then 200 or 500
    result,                         \* result["personas"] of a 200
    transcript,                     \* the conversation's memory: its turns
    outputs,                        \* the locals first, second, .. eleventh
    refinement,                     \* the dict improve_question returns
    lookup,                         \* the last get_persona_definition call made
                                    \* on its own: its argument and its result
    extraction                      \* the last get_content call made on its
                                    \* own: its argument and its result

selectVars ==
    <<response, selection, validated_personas, selected_persona_definitions,
      rationales, missing_rationales, additional_rationales, repair_calls,
      result>>

improveVars == <<transcript, outputs, refinement>>

vars ==
    <<personas_data, pc, handler, calls, status, selectVars, improveVars, lookup,
      extraction>>

selected_personas ==
    <<selection.persona1, selection.persona2, selection.persona3>>

NoLookup == [name |-> "", persona |-> EmptyDict]

NoExtraction ==
    [raw |-> [kind |-> "none", text |-> "", response |-> NoEntry,
              output |-> NoEntry],
     content |-> ""]

\* No request in progress: the locals of the handlers do not exist.
Idle ==
    /\ pc = "idle"
    /\ handler = "none"
    /\ calls = 0
    /\ status = 0
    /\ response = NoResponse
    /\ selection = NoSelection
    /\ validated_personas = <<>>
    /\ selected_persona_definitions = <<>>
    /\ rationales = EmptyMap
    /\ missing_rationales = <<>>
    /\ additional_rationales = EmptyMap
    /\ repair_calls = <<>>
    /\ result = <<>>
    /\ transcript = <<>>
    /\ outputs = <<>>
    /\ refinement = <<>>

\* After startup_event: load_personas has run.
Init ==
    /\ personas_data \in LoadedCatalogs
    /\ Idle
    /\ lookup = NoLookup
    /\ extraction = NoExtraction

\* An error that is returned as the body of a normal response.
Http500AsBody ==
    /\ pc' = "failed"
    /\ status' = 200

\* The except clause of a handler: the request ends with HTTP 500 and the
\* error's message, nothing is returned.
Http500 ==
    /\ pc' = "failed"
    /\ status' = 500

\* ------------------------------------------------------- /select-personas
\* Lines 107-154: the request arrives, the prompt is built.
SelectBegin ==
    /\ pc = "idle"
    /\ pc' = "first_call"
    /\ handler' = "select"
    /\ UNCHANGED <<personas_data, calls, status, selectVars, improveVars, lookup,
                   extraction>>

\* Lines 156-157: the first generation call returns a text.
FirstCallReturns ==
    /\ pc = "first_call"
    /\ calls' = calls + 1
    /\ \E r \in FirstResponses : response' = r
    /\ pc' = "parse"
    /\ UNCHANGED <<personas_data, handler, status, selection,
                   validated_personas, selected_persona_definitions,
                   rationales, missing_rationales,
                   additional_rationales, repair_calls, result, improveVars, lookup,
                   extraction>>

\* Lines 156-157: the first generation call raises.
FirstCallRaises ==
    /\ pc = "first_call"
    /\ calls' = calls + 1
    /\ Http500
    /\ UNCHANGED <<personas_data, handler, selectVars, improveVars, lookup,
                   extraction>>

\* Lines 161-166: the text does not parse.
ParseFails ==
    /\ pc = "parse"
    /\ response.kind \in {"malformed", "badshape"}
    /\ Http500
    /\ UNCHANGED <<personas_data, handler, calls, selectVars, improveVars, lookup,
                   extraction>>

\* Line 162: the text parses.
ParseSucceeds ==
    /\ pc = "parse"
    /\ response.kind = "ok"
    /\ selection' = response.selection
    /\ pc' = "validate"
    /\ UNCHANGED <<personas_data, handler, calls, status, response,
                   validated_personas, selected_persona_definitions,
                   rationales, missing_rationales,
                   additional_rationales, repair_calls, result, improveVars, lookup,
                   extraction>>

\* Lines 170-171 when random.choice raises IndexError on an empty catalog.
ValidateRaises ==
    /\ pc = "validate"
    /\ validate_persona_selection(personas_data, selected_personas) = {}
    /\ Http500
    /\ UNCHANGED <<personas_data, handler, calls, selectVars, improveVars, lookup,
                   extraction>>

\* Lines 170-182: validation, the definitions, the rationale dict and the
\* names that lack a rationale.
Validate ==
    /\ pc = "validate"
    /\ \E v \in validate_persona_selection(personas_data, selected_personas) :
         /\ validated_personas' = v
         /\ selected_persona_definitions' = persona_definitions(personas_data, v)
         /\ personas_data' = personas_after_definitions(personas_data, v)
         /\ rationales' = rationales_of(selection)
         /\ missing_rationales' = missing_of(v, rationales_of(selection))
         /\ pc' = IF needs_repair(missing_of(v, rationales_of(selection)))
                    THEN "repair" ELSE "assemble"
    /\ UNCHANGED <<handler, calls, status, response, selection,
                   additional_rationales, repair_calls, result, improveVars, lookup,
                   extraction>>

\* Lines 200-201: the repair generation call raises.
RepairCallRaises ==
    /\ pc = "repair"
    /\ calls' = calls + 1
    /\ repair_calls' = Append(repair_calls, missing_rationales)
    /\ Http500
    /\ UNCHANGED <<personas_data, handler, response, selection,
                   validated_personas, selected_persona_definitions,
                   rationales, missing_rationales,
                   additional_rationales, result, improveVars, lookup,
                   extraction>>

\* Lines 200-208: the repair generation call returns a text that json.loads
\* or rationales.update rejects.
RepairParseFails ==
    /\ pc = "repair"
    /\ calls' = calls + 1
    /\ repair_calls' = Append(repair_calls, missing_rationales)
    /\ \E r \in RepairResponses(Range(validated_personas)) :
         r.kind \in {"malformed", "rejected"}
    /\ Http500
    /\ UNCHANGED <<personas_data, handler, response, selection,
                   validated_personas, selected_persona_definitions,
                   rationales, missing_rationales,
                   additional_rationales, result, improveVars, lookup,
                   extraction>>

\* Lines 200-205: the repair generation call returns a mapping, which is
\* merged into rationales.
RepairMerges ==
    /\ pc = "repair"
    /\ calls' = calls + 1
    /\ repair_calls' = Append(repair_calls, missing_rationales)
    /\ \E r \in RepairResponses(Range(validated_personas)) :
         /\ r.kind = "mapping"
         /\ additional_rationales' = r.map
         /\ rationales' = DictUpdate(rationales, r.map)
    /\ pc' = "assemble"
    /\ UNCHANGED <<personas_data, handler, status, response, selection,
                   validated_personas, selected_persona_definitions,
                   missing_rationales, result, improveVars, lookup,
                   extraction>>

\* Lines 213-231: the result is assembled and returned.
Assemble ==
    /\ pc = "assemble"
    /\ result' = [i \in 1..Len(selected_persona_definitions) |->
                    ResultPersona(selected_persona_definitions[i], rationales)]
    /\ pc' = "done"
    /\ status' = 200
    /\ UNCHANGED <<personas_data, handler, calls, response, selection,
                   validated_personas, selected_persona_definitions,
                   rationales, missing_rationales,
                   additional_rationales, repair_calls, improveVars, lookup,
                   extraction>>

\* Lines 239-268: the request arrives, persona_info is formatted and the
\* conversation is created with an empty memory.
ImproveBegin ==
    /\ pc = "idle"
    /\ pc' = "stage"
    /\ handler' = "improve"
    /\ UNCHANGED <<personas_data, calls, status, selectVars, improveVars, lookup,
                   extraction>>

\* Lines 241-258: the request lacks "text", "personas" or a persona field.
ImproveBadRequest ==
    /\ pc = "idle"
    /\ handler' = "improve"
    /\ Http500
    /\ UNCHANGED <<personas_data, calls, selectVars, improveVars, lookup,
                   extraction>>

\* conversation.invoke(prompt_k) is called for the next prompt: the chain
\* sends the memory's turns and the prompt.
InvokeStage ==
    /\ pc = "stage"
    /\ Len(outputs) < NumPrompts
    /\ calls' = calls + 1
    /\ pc' = "await"
    /\ UNCHANGED <<personas_data, handler, status, selectVars, improveVars, lookup,
                   extraction>>

\* The call returns: the memory saves the turn, get_content extracts the text.
StageReturns ==
    /\ pc = "await"
    /\ \E raw \in RawResponses :
         /\ transcript' = save_context(transcript, calls, get_content(raw))
         /\ outputs' = Append(outputs, get_content(raw))
    /\ pc' = "stage"
    /\ UNCHANGED <<personas_data, handler, calls, status, selectVars,
                   refinement, lookup,
                   extraction>>

\* The call raises.
StageRaises ==
    /\ pc = "await"
    /\ Http500
    /\ UNCHANGED <<personas_data, handler, calls, selectVars, improveVars, lookup,
                   extraction>>

\* Lines 441-449: the result is returned.
ImproveReturn ==
    /\ pc = "stage"
    /\ Len(outputs) = NumPrompts
    /\ refinement' = improve_result(outputs)
    /\ pc' = "done"
    /\ status' = 200
    /\ UNCHANGED <<personas_data, handler, calls, selectVars,
                   transcript, outputs, lookup,
                   extraction>>

\* The response has been sent; the handler's locals are gone.
Respond ==
    /\ pc \in {"done", "failed"}
    /\ pc' = "idle"
    /\ handler' = "none"
    /\ calls' = 0
    /\ status' = 0
    /\ response' = NoResponse
    /\ selection' = NoSelection
    /\ validated_personas' = <<>>
    /\ selected_persona_definitions' = <<>>
    /\ rationales' = EmptyMap
    /\ missing_rationales' = <<>>
    /\ additional_rationales' = EmptyMap
    /\ repair_calls' = <<>>
    /\ result' = <<>>
    /\ transcript' = <<>>
    /\ outputs' = <<>>
    /\ refinement' = <<>>
    /\ UNCHANGED <<personas_data, lookup,
                   extraction>>

Next ==
    \/ SelectBegin
    \/ FirstCallReturns
    \/ FirstCallRaises
    \/ ParseFails
    \/ ParseSucceeds
    \/ ValidateRaises
    \/ Validate
    \/ RepairCallRaises
    \/ RepairParseFails
    \/ RepairMerges
    \/ Assemble
    \/ ImproveBegin
    \/ ImproveBadRequest
    \/ InvokeStage
    \/ StageReturns
    \/ StageRaises
    \/ ImproveReturn
    \/ Respond

Spec == Init /\ [][Next]_vars

\* ------------------------------------------- get_persona_definition alone
\* Any catalog a personas.yaml may declare over the names.
DeclaredCatalogs == {CatalogOf(S) : S \in SUBSET CatalogNames}

InitResolve ==
    /\ personas_data \in DeclaredCatalogs
    /\ Idle
    /\ lookup = NoLookup
    /\ extraction = NoExtraction

\* The names get_persona_definition may be asked for.
ResolveNames == Range(AllNames) \cup {Hallucinated}

\* get_persona_definition(persona_name) for any name.
Resolve ==
    \E persona_name \in ResolveNames :
       /\ lookup' = [name |-> persona_name,
                     persona |-> get_persona_definition(personas_data, persona_name)]
       /\ personas_data' = personas_after_definition(personas_data, persona_name)
       /\ UNCHANGED <<pc, handler, calls, status, selectVars, improveVars,
                      extraction>>

SpecResolve == InitResolve /\ [][Resolve]_vars

\* ------------------------------------------------------ get_content alone
\* Texts a response may carry or render as.
ContentTexts == {"t1", "t2", "t3"}

\* The values get_content may be given: a str, a dict with or without the
\* keys "response" and "output", any other object; text is str(...) of it.
ContentInputs ==
    {[kind |-> "str", text |-> t, response |-> NoEntry, output |-> NoEntry] :
        t \in ContentTexts} \cup
    {[kind |-> "dict", text |-> t, response |-> r, output |-> o] :
        t \in ContentTexts, r \in ContentTexts \cup {NoEntry},
        o \in ContentTexts \cup {NoEntry}} \cup
    {[kind |-> "other", text |-> t, response |-> NoEntry, output |-> NoEntry] :
        t \in ContentTexts}

InitContent ==
    /\ personas_data \in LoadedCatalogs
    /\ Idle
    /\ lookup = NoLookup
    /\ extraction = NoExtraction

\* get_content(response) for any value.
Extract ==
    \E raw \in ContentInputs :
       /\ extraction' = [raw |-> raw, content |-> get_content(raw)]
       /\ UNCHANGED <<personas_data, pc, handler, calls, status, selectVars,
                      improveVars, lookup>>

SpecContent == InitContent /\ [][Extract]_vars

\* ================================================================ claims
\* The names the catalog declares.
Declared == Range(get_all_persona_names(personas_data))

\* validate_persona_selection has been called by the request in progress.
ValidationCalled == handler = "select" /\ selection # NoSelection /\ pc # "validate"

\* C1 as stated: for every catalog, validate_persona_selection returns three
\* names, all declared by the catalog, a declared name staying at its position.
C1_AsStated ==
    ValidationCalled =>
        /\ Len(validated_personas) = 3
        /\ \A i \in 1..3 :
              /\ validated_personas[i] \in Declared
              /\ selected_personas[i] \in Declared =>
                    validated_personas[i] = selected_personas[i]

\* C1 amended: for every catalog that declares at least one name,
\* validate_persona_selection returns three names, all declared by the
\* catalog; a declared name is kept at its position and an undeclared one is
\* replaced by a declared one.
C1_ValidatedFromCatalog ==
    (ValidationCalled /\ Declared # {}) =>
        /\ Len(validated_personas) = 3
        /\ \A i \in 1..3 :
              /\ validated_personas[i] \in Declared
              /\ selected_personas[i] \in Declared =>
                    validated_personas[i] = selected_personas[i]

\* An undeclared second name has been replaced, a declared first name kept.
C1_Witness ==
    /\ ValidationCalled
    /\ pc \in {"repair", "assemble"}
    /\ selected_personas[1] \in Declared
    /\ selected_personas[2] \notin Declared
    /\ validated_personas[1] = selected_personas[1]
    /\ validated_personas[2] \in Declared

\* C2: every result select_personas returns has exactly three persona records
\* and the rationale of each is a non-empty text.
C2_NonEmptyRationales ==
    (handler = "select" /\ status = 200) =>
        /\ Len(result) = 3
        /\ \A i \in 1..3 : result[i].rationale # ""

\* A validated name has no entry in the rationale dict of the first call.
SomeRationaleMissing ==
    \E i \in 1..Len(validated_personas) :
       ~HasEntry(rationales_of(selection), validated_personas[i])

\* C3: a select_personas request issues the repair call once when a validated
\* name lacks an entry in the first call's rationale dict and not at all
\* otherwise; it makes at most two generation calls, the first call and the
\* repair call, neither of them repeated.
C3_RepairOnceIfMissing ==
    handler = "select" =>
        /\ Len(repair_calls) <= 1
        /\ calls <= 2
        /\ calls = (IF pc = "first_call" THEN 0 ELSE 1) + Len(repair_calls)
        /\ validated_personas = <<>> => repair_calls = <<>>
        /\ (validated_personas # <<>> /\ pc # "repair") =>
              (Len(repair_calls) = 1 <=> SomeRationaleMissing)

\* A request that issued the repair call and returned its result.
C3_Witness ==
    /\ handler = "select"
    /\ pc = "done"
    /\ SomeRationaleMissing
    /\ Len(repair_calls) = 1
    /\ calls = 2

\* C4: the names a repair call asks rationale for are exactly the validated
\* names without an entry in the first call's rationale dict (the empty dict
\* when the rationale field is not a dict).
C4_RepairScope ==
    \A k \in 1..Len(repair_calls) :
       Range(repair_calls[k]) =
          {n \in Range(validated_personas) :
              IF selection.rationale.isdict
                THEN selection.rationale.map[n] = NoEntry
                ELSE TRUE}

\* A repair call for one of three distinct validated names, the other two
\* having their rationale from the first call.
C4_Witness ==
    /\ Len(repair_calls) = 1
    /\ Cardinality(Range(validated_personas)) = 3
    /\ Cardinality(Range(repair_calls[1])) = 1

\* The positions of the selected names the catalog does not declare.
InvalidPositions == {i \in 1..3 : selected_personas[i] \notin Declared}

\* The selected names the catalog declares.
ValidSelected == {selected_personas[i] : i \in (1..3) \ InvalidPositions}

\* The first call selected two declared names and one undeclared name, and
\* its rationale dict has entries for exactly the declared ones.
TwoValidOneInvalid ==
    /\ handler = "select"
    /\ selection # NoSelection
    /\ Cardinality(InvalidPositions) = 1
    /\ selection.rationale.isdict
    /\ {n \in NameUniverse : HasEntry(selection.rationale.map, n)} = ValidSelected

\* The name the undeclared selected name was replaced by.
Substitute == validated_personas[CHOOSE i \in InvalidPositions : TRUE]

\* C5 as stated: in that case every request that returns has issued exactly
\* one repair call, for the substituted name alone, and its three personas
\* are declared by the catalog and have a non-empty rationale each.
C5_AsStated ==
    (TwoValidOneInvalid /\ pc = "done") =>
        /\ Len(repair_calls) = 1
        /\ Range(repair_calls[1]) = {Substitute}
        /\ Len(result) = 3
        /\ \A i \in 1..3 :
              /\ validated_personas[i] \in Declared
              /\ result[i].rationale # ""

\* C5 amended: in that case a request that returns has issued exactly one
\* repair call, for the substituted name alone, when the substitute is neither
\* of the two declared selected names, and no repair call when it is one of
\* them; its three personas are declared by the catalog, and the rationale of
\* each is non-empty unless a generation call gave the empty text for it.
C5_RepairForSubstitute ==
    (TwoValidOneInvalid /\ pc = "done") =>
        /\ IF Substitute \in ValidSelected
             THEN repair_calls = <<>>
             ELSE /\ Len(repair_calls) = 1
                  /\ Range(repair_calls[1]) = {Substitute}
        /\ Len(result) = 3
        /\ \A i \in 1..3 :
              /\ validated_personas[i] \in Declared
              /\ \/ result[i].rationale # ""
                 \/ selection.rationale.map[validated_personas[i]] = ""
                 \/ additional_rationales[validated_personas[i]] = ""

\* The scenario of the specification: two distinct declared names, a third
\* declared name as the substitute, one repair call for it, three rationales.
C5_Witness ==
    /\ TwoValidOneInvalid
    /\ pc = "done"
    /\ Cardinality(ValidSelected) = 2
    /\ Substitute \notin ValidSelected
    /\ repair_calls = << <<Substitute>> >>
    /\ \A i \in 1..3 : result[i].rationale \notin {"", Sentinel}

\* The entry of name n after the repair dict has been merged into the first
\* call's rationale dict, NoEntry when neither has one.
MergedEntry(n) ==
    IF additional_rationales[n] # NoEntry
      THEN additional_rationales[n]
      ELSE IF selection.rationale.isdict THEN selection.rationale.map[n] ELSE NoEntry

\* C6: in the returned result there is one record for each of the three
\* validated personas, in order; its rationale is the entry of the validated
\* name in the merged rationale dict, and the sentinel when there is none.
C6_RationaleOrSentinel ==
    (handler = "select" /\ status = 200) =>
        /\ Len(result) = 3
        /\ \A i \in 1..3 :
              /\ result[i].role =
                    DictGet(personas_data.defs[validated_personas[i]], "role", "Unknown")
              /\ result[i].rationale =
                    IF MergedEntry(validated_personas[i]) # NoEntry
                      THEN MergedEntry(validated_personas[i])
                      ELSE Sentinel

\* A result with a sentinel for a name the repair call left out and with a
\* rationale of the first call that the repair call overwrote.
C6_Witness ==
    /\ handler = "select"
    /\ status = 200
    /\ \E i \in 1..3 :
          /\ result[i].rationale = Sentinel
          /\ validated_personas[i] \in Range(repair_calls[1])
    /\ \E j \in 1..3 :
          /\ result[j].rationale = "r2"
          /\ selection.rationale.map[validated_personas[j]] = "r1"

\* The memory holds the turns of prompts 1..N, in order, with the texts the
\* handler extracted; a call in flight is the one for prompt N+1.
C7_Sequential ==
    handler = "improve" =>
        /\ calls <= NumPrompts
        /\ Len(transcript) = Len(outputs)
        /\ \A k \in 1..Len(transcript) :
              transcript[k] = [prompt |-> k, response |-> outputs[k]]
        /\ pc = "await" => calls = Len(transcript) + 1
        /\ pc = "stage" => calls = Len(transcript)
        /\ pc = "done" => calls = NumPrompts /\ Len(transcript) = NumPrompts

\* C7: a successful improve_question request issues exactly 11 generation
\* calls on one conversation, prompt 1 to prompt 11 in order; call N+1 is
\* issued when the memory holds the turns 1..N, and during the request the
\* memory only grows.
C7_ElevenCallsInOrder ==
    /\ []C7_Sequential
    /\ [][(handler = "improve" /\ handler' = "improve") =>
             /\ Len(transcript') >= Len(transcript)
             /\ SubSeq(transcript', 1, Len(transcript)) = transcript]_vars

\* A request that returned after eleven turns.
C7_Witness ==
    /\ handler = "improve"
    /\ pc = "done"
    /\ calls = 11
    /\ Len(transcript) = 11
    /\ transcript[1].response # transcript[11].response

ResultFields ==
    {"improved_question", "final_answer", "summary", "rationale",
     "harmony_principle", "new_dimensions", "individual_answers"}

\* C8: the dict improve_question returns has exactly seven fields,
\* individual_answers, final_answer, improved_question, summary, rationale,
\* harmony_principle and new_dimensions, holding the texts of stages 5, 6, 7,
\* 8, 9, 10 and 11; a text that only stages 1 to 4 produced is in no field.
C8_RetainedStages ==
    (handler = "improve" /\ status = 200) =>
        /\ DOMAIN refinement = ResultFields
        /\ refinement.individual_answers = outputs[5]
        /\ refinement.final_answer = outputs[6]
        /\ refinement.improved_question = outputs[7]
        /\ refinement.summary = outputs[8]
        /\ refinement.rationale = outputs[9]
        /\ refinement.harmony_principle = outputs[10]
        /\ refinement.new_dimensions = outputs[11]
        /\ \A j \in 1..4 :
              (\A k \in 5..NumPrompts : outputs[k] # outputs[j]) =>
                 \A f \in ResultFields : refinement[f] # outputs[j]

\* A returned result while stages 1 to 4 produced another text than stages 5
\* to 11: that text is in no field.
C8_Witness ==
    /\ handler = "improve"
    /\ status = 200
    /\ \A j \in 1..4 : outputs[j] = "t1"
    /\ \A k \in 5..NumPrompts : outputs[k] = "t2"
    /\ \A f \in ResultFields : refinement[f] = "t2"

\* A failed request has status 500 and no payload, a returned one status 200.
C9_NoPartialResult ==
    /\ status = 500 <=> pc = "failed"
    /\ status = 200 <=> pc = "done"
    /\ pc = "failed" => result = <<>> /\ refinement = <<>>
    /\ (pc = "failed" /\ handler = "improve") =>
          calls = (IF outputs = <<>> /\ calls = 0 THEN 0 ELSE Len(outputs) + 1)
    /\ (pc = "failed" /\ handler = "select") => calls = 1 + Len(repair_calls)

\* C9: in both handlers a failing step (a generation call that raises, a
\* first or repair text that does not parse, a failing stage) ends the request
\* with HTTP 500 and no result payload, and the request issues no generation
\* call after it.
C9_AllOrNothing ==
    /\ []C9_NoPartialResult
    /\ [][pc = "failed" => (pc' = "idle" /\ calls' = 0)]_vars

\* A request whose repair text did not parse: validated personas and
\* rationales exist, none is returned.
C9_Witness ==
    /\ handler = "select"
    /\ pc = "failed"
    /\ status = 500
    /\ Len(validated_personas) = 3
    /\ Len(repair_calls) = 1
    /\ result = <<>>

DefaultedFields ==
    {"original_role", "core_expertise", "cognitive_approach",
     "values_and_motivations", "communication_style", "notable_trait"}

\* C10: get_persona_definition returns a record for every name and every
\* catalog, the empty one included; the record has the defaulted attributes,
\* and for a name the catalog does not declare it is the placeholder: role
\* "Unknown", background "No background available", the other attributes
\* present and empty.
C10_ResolveTotal ==
    /\ \A n \in ResolveNames :
          LET p == get_persona_definition(personas_data, n)
          IN  /\ DefaultedFields \subseteq p.keys
              /\ p.val["original_role"] = n
    /\ (lookup.name # "" /\ lookup.name \notin Declared) =>
          /\ lookup.persona.keys = DefaultedFields \cup {"name", "role", "background"}
          /\ lookup.persona.val["name"] = lookup.name
          /\ lookup.persona.val["role"] = "Unknown"
          /\ lookup.persona.val["background"] = "No background available"
          /\ lookup.persona.val["core_expertise"] = <<>>
          /\ lookup.persona.val["cognitive_approach"] = ""
          /\ lookup.persona.val["values_and_motivations"] = ""
          /\ lookup.persona.val["communication_style"] = ""
          /\ lookup.persona.val["notable_trait"] = ""

\* A lookup in the empty catalog, after which a declared name is unknown too.
C10_Witness ==
    /\ personas_data.order = <<>>
    /\ lookup.name = "A"
    /\ lookup.persona.val["role"] = "Unknown"

\* The shapes of a response: the plain string, the dict with a "response"
\* key, the dict with an "output" key.
IsStr(raw) == raw.kind = "str"
HasResponse(raw) == raw.kind = "dict" /\ raw.response # NoEntry
HasOutput(raw) == raw.kind = "dict" /\ raw.output # NoEntry

\* C11 as stated: get_content returns t for the string t, for a dict whose
\* "response" is t and for a dict whose "output" is t, and the string
\* rendering of the response for any other value.
C11_AsStated ==
    extraction.raw.kind # "none" =>
        /\ IsStr(extraction.raw) => extraction.content = extraction.raw.text
        /\ HasResponse(extraction.raw) =>
              extraction.content = extraction.raw.response
        /\ HasOutput(extraction.raw) =>
              extraction.content = extraction.raw.output
        /\ (~IsStr(extraction.raw) /\ ~HasResponse(extraction.raw)
               /\ ~HasOutput(extraction.raw)) =>
              extraction.content = extraction.raw.text

\* C11 amended: get_content returns t for the string t, for a dict whose
\* "response" is t, and for a dict whose "output" is t when the dict has no
\* "response" key (the "response" key wins when both are present); for any
\* other value it returns the string rendering of the response.
C11_SameTextForShapes ==
    extraction.raw.kind # "none" =>
        /\ IsStr(extraction.raw) => extraction.content = extraction.raw.text
        /\ HasResponse(extraction.raw) =>
              extraction.content = extraction.raw.response
        /\ (HasOutput(extraction.raw) /\ ~HasResponse(extraction.raw)) =>
              extraction.content = extraction.raw.output
        /\ (~IsStr(extraction.raw) /\ ~HasResponse(extraction.raw)
               /\ ~HasOutput(extraction.raw)) =>
              extraction.content = extraction.raw.text

\* A dict with the "output" key alone, whose rendering is another text.
C11_Witness ==
    /\ extraction.raw.kind = "dict"
    /\ extraction.raw.response = NoEntry
    /\ extraction.raw.output = "t1"
    /\ extraction.raw.text = "t2"
    /\ extraction.content = "t1"

\* C12: once load_personas has run, no step of a select_personas or
\* improve_question request changes the catalog: the declared names and the
\* attributes stored for each persona stay as loaded.
C12_CatalogUnchanged == [][personas_data' = personas_data]_vars

====
